---------------------------- MODULE Spec2Model ----------------------------
(***************************************************************************)
(* DeepLab v2 (ResNet-101, ASPP, multi-scale wrapper MSC) and its training *)
(* driver, as state machines.                                              *)
(*                                                                         *)
(*   SpecNet    DeepLabV2 (nn.Sequential) walking an input of side S       *)
(*              through its children: spatial sizes only.                  *)
(*   SpecMSC    MSC.forward on a square input, tensors with values.        *)
(*   Spec       train_cityscapes.main: checkpoint load, optimizer          *)
(*              construction, the training loop, checkpoint writes.        *)
(*   SpecSched  poly_lr_scheduler applied, with any iteration argument,    *)
(*              to the optimizer main constructs.                          *)
(*                                                                         *)
(* Spatial tensors are square (the code builds every size as (n, ) * 2),   *)
(* so one side length stands for both axes.  Learning rates are exact      *)
(* rationals [n, d] in lowest terms; the polynomial power is a natural.    *)
(***************************************************************************)
EXTENDS Integers, Sequences, FiniteSets, TLC

VARIABLES
    \* ---- DeepLabV2 forward (SpecNet)
    side,           \* side of the square input handed to DeepLabV2
    child,          \* number of children of the Sequential already applied
    h,              \* side of the feature map after `child` children
    \* ---- MSC (SpecMSC, and the forward pass inside the driver)
    training,       \* nn.Module.training of the MSC wrapper
    interp,         \* sizes of self.interp075/050/100 (0: attribute not set)
    x_in,           \* side of the input x the caller passes (0: none)
    scale_out,      \* what self.scale returns on x and on its two resizings
    x_size,         \* x.size(2) of the latest MSC.forward call (0: none yet)
    output100,      \* locals of the latest MSC.forward call
    output075,
    output050,
    up075,          \* self.interp100(output075)
    up050,          \* self.interp100(output050)
    outputMAX,
    ret,            \* what MSC.forward returned
    \* ---- training driver (Spec, SpecSched)
    CONFIG,         \* the yaml configuration
    state_dict,     \* torch.load(CONFIG.INIT_MODEL): the checkpoint's keys
    pc,             \* position of main
    param_src,      \* per parameter family: "fresh" or "pretrained"
    param_groups,   \* optimizer.param_groups (<<>> before construction)
    iteration,      \* loop variable of the training loop
    i,              \* loop variable of the accumulation loop
    loader_left,    \* batches loader_iter can still yield
    grad_count,     \* backward passes accumulated in .grad since zero_grad
    param_version,  \* optimizer.step() calls applied to the parameters
    fwd_reads,      \* parameter versions read by this iteration's forwards
    call_t,         \* iter argument of the latest poly_lr_scheduler call
    saved           \* checkpoint files written: file |-> param_version

netVars == <<side, child, h>>
mscVars == <<x_in, scale_out, x_size, output100, output075, output050, up075, up050,
             outputMAX, ret>>
modVars == <<training, interp>>
drvVars == <<CONFIG, state_dict, pc, param_src, param_groups, iteration, i,
             loader_left, grad_count, param_version, fwd_reads, call_t,
             saved>>
vars == <<netVars, mscVars, modVars, drvVars>>

-----------------------------------------------------------------------------
(* Bounds of the model *)

MaxSide == 520          \* SpecNet: input sides 1..MaxSide (covers 321, 513)
MaxMscSide == 16        \* SpecMSC: input sides 2..MaxMscSide
MaxVal == 1             \* SpecMSC: score values 0..MaxVal
MaxLoaderLen == 3       \* driver: len(loader) in 1..MaxLoaderLen
MaxIterSize == 3        \* driver: CONFIG.ITER_SIZE in 1..MaxIterSize
MaxShortRun == 4        \* driver: CONFIG.ITER_MAX in 1..MaxShortRun, or LongRun
LongRun == 100          \* driver: CONFIG.ITER_MAX of the long runs
MaxIterTF == 3          \* driver: CONFIG.ITER_TF in 1..MaxIterTF
MaxIterSnap == 2        \* driver: CONFIG.ITER_SNAP in 1..MaxIterSnap
MaxLrDecay == 3         \* driver: CONFIG.LR_DECAY in 1..MaxLrDecay, or 10
MaxPower == 2           \* CONFIG.POLY_POWER in 0..MaxPower
MaxLR == 2              \* CONFIG.LR in 1..MaxLR
MaxWeightDecay == 1     \* CONFIG.WEIGHT_DECAY in 1..MaxWeightDecay
TrainCrop == 321        \* CONFIG.IMAGE.SIZE.TRAIN
MaxSchedIter == 4       \* SpecSched: max_iter in 1..MaxSchedIter, or LongRun
MaxPastEnd == 2         \* SpecSched: iter in 0..max_iter + MaxPastEnd

\* Program constants
HistogramEvery == 1000  \* iteration % 1000 != 0: continue
CurrentEvery == 100     \* iteration % 100 == 0: checkpoint_current.pth

-----------------------------------------------------------------------------
(* Arithmetic helpers *)

CeilDiv(a, b) == (a + b - 1) \div b

Max2(a, b) == IF a >= b THEN a ELSE b

-----------------------------------------------------------------------------
(* Spatial size arithmetic of the layers *)

\* nn.Conv2d output side: floor((in + 2p - d(k-1) - 1)/s) + 1
ConvOut(n, k, s, p, d) == ((n + 2 * p - d * (k - 1) - 1) \div s) + 1

\* nn.MaxPool2d with the division always rounded down
MaxPoolOut_floor(n, k, s, p, ceil_mode) == ((n + 2 * p - k) \div s) + 1

\* nn.MaxPool2d output side.  With ceil_mode the division rounds up, and the
\* last window is dropped when it would start beyond the input and its left
\* padding.
MaxPoolOut(n, k, s, p, ceil_mode) ==
    LET raw == IF ceil_mode THEN CeilDiv(n + 2 * p - k, s) + 1
                            ELSE ((n + 2 * p - k) \div s) + 1
    IN IF ceil_mode /\ (raw - 1) * s >= n + p THEN raw - 1 ELSE raw

\* _ConvBatchNormReLU(in, out, kernel, stride, padding, dilation): batch norm
\* and ReLU keep the shape.
ConvBatchNormReLU(n, k, s, p, d) == ConvOut(n, k, s, p, d)

\* One bottleneck unit: 1x1 reduce, 3x3 carrying stride and dilation (padding
\* = dilation, the only padding for which the main path meets the 1x1
\* strided shortcut on every input side), 1x1 expand.
Bottleneck(n, stride, dilation) ==
    ConvBatchNormReLU(
        ConvBatchNormReLU(ConvBatchNormReLU(n, 1, 1, 0, 1),
                          3, stride, dilation, dilation),
        1, 1, 0, 1)

\* The shortcut of a bottleneck unit: identity, or a 1x1 projection with the
\* block's stride.
Shortcut(n, stride) == ConvBatchNormReLU(n, 1, stride, 0, 1)

\* _ResBlock(n_layers, ..., stride, dilation): the first unit carries the
\* stride, the others have stride 1.  Each unit adds its main path to its
\* shortcut, which needs the two shapes to agree; 0 stands for the shape
\* error otherwise.
RECURSIVE ResBlockFrom(_, _, _, _)
ResBlockFrom(n, left, stride, dilation) ==
    IF left = 0 THEN n
    ELSE LET m == Bottleneck(n, stride, dilation)
         IN IF m < 1 \/ m # Shortcut(n, stride) THEN 0
            ELSE ResBlockFrom(m, left - 1, 1, dilation)

ResBlock(n, n_layers, stride, dilation) ==
    ResBlockFrom(n, n_layers, stride, dilation)

\* DeepLabV2_ResNet101_MSC: n_blocks and pyramids
n_blocks == <<3, 4, 23, 3>>
pyramids == <<6, 12, 18, 24>>

\* _ASPPModule.forward: h += stage(x) over the branches (3x3, stride 1,
\* padding = dilation).  The sum needs every branch to have the same shape;
\* 0 stands for the shape error otherwise.
ASPPModule(n) ==
    LET outs == {ConvOut(n, 3, 1, pyramids[b], pyramids[b]) :
                     b \in 1..Len(pyramids)}
    IN IF Cardinality(outs) = 1 THEN CHOOSE o \in outs : TRUE ELSE 0

\* The children DeepLabV2.__init__ adds, in order.
Children == <<"layer1", "layer2", "layer3", "layer4", "layer5", "aspp">>

Layer1(n) == MaxPoolOut(ConvBatchNormReLU(n, 7, 2, 3, 1), 3, 2, 1, TRUE)

ApplyChild(name, n) ==
    CASE name = "layer1" -> Layer1(n)
      [] name = "layer2" -> ResBlock(n, n_blocks[1], 1, 1)
      [] name = "layer3" -> ResBlock(n, n_blocks[2], 2, 1)
      [] name = "layer4" -> ResBlock(n, n_blocks[3], 1, 2)
      [] name = "layer5" -> ResBlock(n, n_blocks[4], 1, 4)
      [] name = "aspp"   -> ASPPModule(n)

\* nn.Sequential.forward: the children applied in order.
RECURSIVE SequentialFrom(_, _)
SequentialFrom(n, k) ==
    IF k > Len(Children) THEN n
    ELSE SequentialFrom(ApplyChild(Children[k], n), k + 1)

DeepLabV2(n) == SequentialFrom(n, 1)

-----------------------------------------------------------------------------
(* Tensors of MSC.forward *)

\* A score map along one spatial axis: num[j] / den is the value at pixel j.
\* Bilinear resizing divides by (target side - 1); keeping the denominator
\* keeps every value exact.
NoTensor == [den |-> 1, num |-> <<>>]

Size(t) == Len(t.num)

\* What self.scale can return for an input of side n: a map of side
\* DeepLabV2(n), its values depending on the weights.
NetOutputs(n) ==
    {[den |-> 1, num |-> s] : s \in [1..DeepLabV2(n) -> 0..MaxVal]}

\* nn.Upsample(size=(n, ) * 2, mode='bilinear') on t: output pixel j reads
\* the source position j * (m - 1) / (n - 1) (0 when n = 1) and mixes its two
\* neighbours by the fractional part.
Upsample(t, n) ==
    LET m == Size(t)
        D == Max2(n - 1, 1)
        val(j) ==
            LET pos == j * (m - 1)
                i0 == pos \div D
                r == pos % D
                i1 == IF i0 < m - 1 THEN i0 + 1 ELSE i0
            IN t.num[i0 + 1] * (D - r) + t.num[i1 + 1] * r
    IN [den |-> t.den * D, num |-> [j \in 1..n |-> val(j - 1)]]

\* The maximum over the first two maps only
TorchMaxStack_first_two(a, b, c) ==
    LET cd == a.den * b.den * c.den
        at(t, j) == t.num[j] * (cd \div t.den)
    IN [den |-> cd,
        num |-> [j \in 1..Size(a) |-> Max2(at(a, j), at(b, j))]]

\* torch.max(torch.stack((a, b, c)), dim=0)[0]: the three maps on a common
\* denominator, then the largest value at each pixel.  torch.stack raises on
\* maps of different sizes (NoTensor here).
TorchMaxStack(a, b, c) ==
    LET cd == a.den * b.den * c.den
        at(t, j) == t.num[j] * (cd \div t.den)
    IN IF Size(a) = Size(b) /\ Size(a) = Size(c)
       THEN [den |-> cd,
             num |-> [j \in 1..Size(a) |->
                         Max2(at(a, j), Max2(at(b, j), at(c, j)))]]
       ELSE NoTensor

\* int(input_size * 0.75) and int(input_size * 0.5): both products are exact
\* in floating point for these sides, and int() truncates.
Size075(input_size) == (input_size * 3) \div 4

Size050(input_size) == input_size \div 2

\* A return that ignores the mode
MSCReturn_always_fused(train, o100, o075, o050, omax) == <<omax>>

\* The return statement of MSC.forward
MSCReturn(train, o100, o075, o050, omax) ==
    IF train THEN <<o100, o075, o050, omax>> ELSE <<omax>>

\* The attributes MSC.forward assigns for an input of side S whose 100%
\* output has side size100.
InterpFor(S, size100) ==
    [interp075 |-> Size075(S), interp050 |-> Size050(S), interp100 |-> size100]

NoInterp == [interp075 |-> 0, interp050 |-> 0, interp100 |-> 0]

-----------------------------------------------------------------------------
(* Exact rationals for the learning rates *)

RECURSIVE GCD(_, _)
GCD(a, b) == IF b = 0 THEN a ELSE GCD(b, a % b)

RECURSIVE Pow(_, _)
Pow(b, e) == IF e = 0 THEN 1 ELSE b * Pow(b, e - 1)

\* n / d in lowest terms (n >= 0, d > 0)
Rat(n, d) == LET g == GCD(n, d) IN [n |-> n \div g, d |-> d \div g]

RatMul(a, b) == Rat(a.n * b.n, a.d * b.d)

RatSub(a, b) == Rat(a.n * b.d - b.n * a.d, a.d * b.d)

RatPow(a, e) == Rat(Pow(a.n, e), Pow(a.d, e))

RatInt(k) == Rat(k, 1)

-----------------------------------------------------------------------------
(* The module tree of DeepLabV2_ResNet101_MSC, as model.named_modules()    *)
(* lists it: dotted names are sequences of their components.               *)

Module(name, type, params) == [name |-> name, type |-> type, params |-> params]

\* _ConvBatchNormReLU: conv (no bias), bn, and relu unless disabled
ConvBatchNormReLUModules(prefix, relu) ==
    {Module(prefix, "_ConvBatchNormReLU", {}),
     Module(prefix \o <<"conv">>, "Conv2d", {"weight"}),
     Module(prefix \o <<"bn">>, "BatchNorm2d", {"weight", "bias"})}
    \cup (IF relu THEN {Module(prefix \o <<"relu">>, "ReLU", {})} ELSE {})

\* A bottleneck unit; the first unit of a stack has the projection shortcut.
BottleneckModules(prefix, downsample) ==
    {Module(prefix, "_Bottleneck", {})}
    \cup ConvBatchNormReLUModules(prefix \o <<"reduce">>, TRUE)
    \cup ConvBatchNormReLUModules(prefix \o <<"conv3x3">>, TRUE)
    \cup ConvBatchNormReLUModules(prefix \o <<"increase">>, FALSE)
    \cup (IF downsample
          THEN ConvBatchNormReLUModules(prefix \o <<"proj">>, FALSE)
          ELSE {})

BlockName ==
    <<"block1", "block2", "block3", "block4", "block5", "block6", "block7",
      "block8", "block9", "block10", "block11", "block12", "block13",
      "block14", "block15", "block16", "block17", "block18", "block19",
      "block20", "block21", "block22", "block23">>

ResBlockModules(prefix, n_layers) ==
    {Module(prefix, "_ResBlock", {})}
    \cup UNION {BottleneckModules(prefix \o <<BlockName[b]>>, b = 1) :
                    b \in 1..n_layers}

\* _ASPPModule.__init__: stages.c0, c1, ... are Conv2d with bias=True
StageName == <<"c0", "c1", "c2", "c3">>

ASPPModules(prefix) ==
    {Module(prefix, "_ASPPModule", {}),
     Module(prefix \o <<"stages">>, "Module", {})}
    \cup {Module(prefix \o <<"stages", StageName[b]>>, "Conv2d",
                 {"weight", "bias"}) : b \in 1..Len(pyramids)}

\* DeepLabV2.__init__
DeepLabV2Modules(prefix) ==
    {Module(prefix, "DeepLabV2", {}),
     Module(prefix \o <<"layer1">>, "Sequential", {}),
     Module(prefix \o <<"layer1", "pool">>, "MaxPool2d", {})}
    \cup ConvBatchNormReLUModules(prefix \o <<"layer1", "conv1">>, TRUE)
    \cup ResBlockModules(prefix \o <<"layer2">>, n_blocks[1])
    \cup ResBlockModules(prefix \o <<"layer3">>, n_blocks[2])
    \cup ResBlockModules(prefix \o <<"layer4">>, n_blocks[3])
    \cup ResBlockModules(prefix \o <<"layer5">>, n_blocks[4])
    \cup ASPPModules(prefix \o <<"aspp">>)

\* MSC.__init__: self.scale = model
ConstructedModules ==
    {Module(<<>>, "MSC", {})} \cup DeepLabV2Modules(<<"scale">>)

\* The nn.Upsample children MSC.forward assigns (attributes that hold a
\* module are registered as children).
AttachedModules(att) ==
    {Module(<<a>>, "Upsample", {}) :
         a \in {b \in {"interp075", "interp050", "interp100"} : att[b] > 0}}

NamedModules(att) == ConstructedModules \cup AttachedModules(att)

\* `sub in name` for the two substrings the driver looks for: neither holds a
\* dot, so it lies within one component of the dotted name.
ComponentHas(c, sub) ==
    CASE sub = "layer" ->
             c \in {"layer1", "layer2", "layer3", "layer4", "layer5"}
      [] sub = "aspp" -> c = "aspp"

NameHas(name, sub) == \E k \in 1..Len(name) : ComponentHas(name[k], sub)

\* get_lr_params yielding m[1].parameters() for the ASPP keys as well
get_lr_params_all_aspp(modules, key) ==
    CASE key = "1x" ->
             UNION {{<<m.name, q>> : q \in m.params} :
                        m \in {mm \in modules : /\ mm.type = "Conv2d"
                                                /\ NameHas(mm.name, "layer")}}
      [] key \in {"10x", "20x"} ->
             UNION {{<<m.name, q>> : q \in m.params} :
                        m \in {mm \in modules : /\ mm.type = "Conv2d"
                                                /\ NameHas(mm.name, "aspp")}}

\* get_lr_params(model, key): the parameters it yields, each as
\* <<module name, parameter name>>.
get_lr_params(modules, key) ==
    CASE key = "1x" ->
             UNION {{<<m.name, q>> : q \in m.params} :
                        m \in {mm \in modules : /\ mm.type = "Conv2d"
                                                /\ NameHas(mm.name, "layer")}}
      [] key = "10x" ->
             {<<m.name, "weight">> :
                  m \in {mm \in modules : /\ mm.type = "Conv2d"
                                          /\ NameHas(mm.name, "aspp")}}
      [] key = "20x" ->
             {<<m.name, "bias">> :
                  m \in {mm \in modules : /\ mm.type = "Conv2d"
                                          /\ NameHas(mm.name, "aspp")}}

-----------------------------------------------------------------------------
(* The learning-rate policy *)

\* The scheduler returning early only when both conditions hold
poly_lr_scheduler_and(groups, init_lr, iter, lr_decay_iter, max_iter, power) ==
    IF iter % lr_decay_iter # 0 /\ iter > max_iter THEN groups
    ELSE LET new_lr ==
                 RatMul(init_lr,
                        RatPow(RatSub(RatInt(1), Rat(iter, max_iter)), power))
         IN [groups EXCEPT ![1].lr = new_lr,
                           ![2].lr = RatMul(RatInt(10), new_lr),
                           ![3].lr = RatMul(RatInt(20), new_lr)]

\* The scheduler decaying the current rate of group 0
poly_lr_scheduler_cur(groups, init_lr, iter, lr_decay_iter, max_iter, power) ==
    IF iter % lr_decay_iter # 0 \/ iter > max_iter THEN groups
    ELSE LET new_lr ==
                 RatMul(groups[1].lr,
                        RatPow(RatSub(RatInt(1), Rat(iter, max_iter)), power))
         IN [groups EXCEPT ![1].lr = new_lr,
                           ![2].lr = RatMul(RatInt(10), new_lr),
                           ![3].lr = RatMul(RatInt(20), new_lr)]

\* poly_lr_scheduler(optimizer, init_lr, iter, lr_decay_iter, max_iter,
\* power): the optimizer's param_groups after the call.
poly_lr_scheduler(groups, init_lr, iter, lr_decay_iter, max_iter, power) ==
    IF iter % lr_decay_iter # 0 \/ iter > max_iter THEN groups
    ELSE LET new_lr ==
                 RatMul(init_lr,
                        RatPow(RatSub(RatInt(1), Rat(iter, max_iter)), power))
         IN [groups EXCEPT ![1].lr = new_lr,
                           ![2].lr = RatMul(RatInt(10), new_lr),
                           ![3].lr = RatMul(RatInt(20), new_lr)]

\* torch.optim.SGD(params=[...]): the three groups of main
SGDParamGroups(modules, lr, weight_decay) ==
    <<[params |-> get_lr_params(modules, "1x"),
       lr |-> lr, weight_decay |-> weight_decay],
      [params |-> get_lr_params(modules, "10x"),
       lr |-> RatMul(RatInt(10), lr), weight_decay |-> weight_decay],
      [params |-> get_lr_params(modules, "20x"),
       lr |-> RatMul(RatInt(20), lr), weight_decay |-> 0]>>

-----------------------------------------------------------------------------
(* Values the variables of the other machines hold while one machine runs *)

NetIdle == side = 0 /\ child = 0 /\ h = 0

NoScaleOut == [o100 |-> NoTensor, o075 |-> NoTensor, o050 |-> NoTensor]

MscIdle ==
    /\ x_in = 0 /\ scale_out = NoScaleOut
    /\ x_size = 0
    /\ output100 = NoTensor /\ output075 = NoTensor /\ output050 = NoTensor
    /\ up075 = NoTensor /\ up050 = NoTensor /\ outputMAX = NoTensor
    /\ ret = <<>>

NoConfig == [ITER_MAX |-> 0]

DrvIdle ==
    /\ CONFIG = NoConfig /\ state_dict = <<>> /\ pc = "none"
    /\ param_src = <<>> /\ param_groups = <<>>
    /\ iteration = 0 /\ i = 0 /\ loader_left = 0 /\ grad_count = 0
    /\ param_version = 0 /\ fwd_reads = {} /\ call_t = -1 /\ saved = {}

-----------------------------------------------------------------------------
(* SpecNet: DeepLabV2.forward, one child of the Sequential per step *)

InitNet ==
    /\ side \in 1..MaxSide /\ child = 0 /\ h = side
    /\ training = TRUE /\ interp = NoInterp
    /\ MscIdle /\ DrvIdle

SequentialStep ==
    /\ side > 0
    /\ child < Len(Children)
    /\ h' = ApplyChild(Children[child + 1], h)
    /\ child' = child + 1
    /\ UNCHANGED <<side, mscVars, modVars, drvVars>>

NextNet == SequentialStep

SpecNet == InitNet /\ [][NextNet]_vars

-----------------------------------------------------------------------------
(* SpecMSC: MSC.forward, and the mode toggle of nn.Module *)

MscLocalsIdle ==
    /\ x_size = 0
    /\ output100 = NoTensor /\ output075 = NoTensor /\ output050 = NoTensor
    /\ up075 = NoTensor /\ up050 = NoTensor /\ outputMAX = NoTensor
    /\ ret = <<>>

\* The input and the weights are fixed from the start: self.scale is a
\* function of its input, so its three results are too.
InitMSC ==
    /\ training \in BOOLEAN /\ interp = NoInterp
    /\ x_in \in 2..MaxMscSide
    /\ scale_out \in [o100 : NetOutputs(x_in),
                      o075 : NetOutputs(Size075(x_in)),
                      o050 : NetOutputs(Size050(x_in))]
    /\ MscLocalsIdle /\ NetIdle /\ DrvIdle

\* model(x), the whole of MSC.forward
MSCForward ==
    /\ x_in > 0
    /\ LET o100 == scale_out.o100
           o075 == scale_out.o075
           o050 == scale_out.o050
           size100 == Size(o100)
           u075 == Upsample(o075, size100)
           u050 == Upsample(o050, size100)
           omax == TorchMaxStack(o100, u075, u050)
       IN /\ x_size' = x_in
          /\ interp' = InterpFor(x_in, size100)
          /\ output100' = o100 /\ output075' = o075 /\ output050' = o050
          /\ up075' = u075 /\ up050' = u050
          /\ outputMAX' = omax
          /\ ret' = MSCReturn(training, o100, o075, o050, omax)
    /\ UNCHANGED <<x_in, scale_out, training, netVars, drvVars>>

\* model.train() / model.eval()
SetMode ==
    /\ x_in > 0
    /\ training' = ~training
    /\ UNCHANGED <<interp, mscVars, netVars, drvVars>>

NextMSC == MSCForward \/ SetMode

SpecMSC == InitMSC /\ [][NextMSC]_vars

-----------------------------------------------------------------------------
(* Spec: train_cityscapes.main *)

\* The parameter families a checkpoint is read for: the backbone
\* (scale.layer*.…) and the ASPP head (scale.aspp.stages.c*.…).  For each,
\* the checkpoint holds every key with the model's shape ("present"), lacks
\* a key ("absent"), or holds a key of another shape ("mismatch").
KeyFamilies == {"layer", "aspp"}

KeyStatus == {"present", "absent", "mismatch"}

\* The intended initial weights: a backbone without the ASPP head
BackboneOnly == [f \in KeyFamilies |-> IF f = "layer" THEN "present" ELSE "absent"]

\* LEN_LOADER is len(loader), fixed by the dataset and CONFIG.BATCH_SIZE.
ConfigOf(len, size, max, tf, snap, decay, power, lr, wd) ==
    [LEN_LOADER |-> len, ITER_SIZE |-> size, ITER_MAX |-> max,
     ITER_TF |-> tf, ITER_SNAP |-> snap, LR_DECAY |-> decay,
     POLY_POWER |-> power, LR |-> lr, WEIGHT_DECAY |-> wd,
     SIZE_TRAIN |-> TrainCrop]

\* Short runs over every loader length, accumulation size and interval
LoopConfigs ==
    {ConfigOf(len, size, max, tf, snap, 1, 1, 1, 1) :
        len \in 1..MaxLoaderLen, size \in 1..MaxIterSize,
        max \in 1..MaxShortRun, tf \in 1..MaxIterTF,
        snap \in 1..MaxIterSnap}

\* Short runs over the learning-rate settings
RateConfigs ==
    {ConfigOf(1, 1, max, MaxIterTF, MaxIterSnap, decay, power, lr, wd) :
        max \in 1..MaxShortRun, decay \in 1..MaxLrDecay,
        power \in 0..MaxPower, lr \in 1..MaxLR, wd \in 1..MaxWeightDecay}

\* Long runs, decaying every 10 iterations
LongConfigs ==
    {ConfigOf(MaxLoaderLen, 2, LongRun, MaxIterTF, MaxIterSnap, 10, power, 1, 1) :
        power \in {1, 2}}

\* One short run for every checkpoint content
LoadConfig == ConfigOf(2, 2, 2, MaxIterTF, 1, 1, 1, 1, 1)

Runs ==
    ((LoopConfigs \cup RateConfigs \cup LongConfigs) \X {BackboneOnly})
    \cup ({LoadConfig} \X [KeyFamilies -> KeyStatus])

\* main up to loader_iter = iter(loader) and the model's construction
Init ==
    /\ \E run \in Runs : CONFIG = run[1] /\ state_dict = run[2]
    /\ pc = "load"
    /\ param_src = [f \in KeyFamilies |-> "fresh"]
    /\ param_groups = <<>>
    /\ iteration = 0 /\ i = 0
    /\ loader_left = CONFIG.LEN_LOADER
    /\ grad_count = 0 /\ param_version = 0 /\ fwd_reads = {}
    /\ call_t = -1 /\ saved = {}
    /\ training = TRUE /\ interp = NoInterp
    /\ MscIdle /\ NetIdle

\* model.load_state_dict(state_dict, strict=False): every key of the
\* checkpoint that the model has is copied, and the copy raises on a shape
\* mismatch; with strict=False neither a missing nor an unexpected key
\* raises.
load_state_dict(own, sd, strict) ==
    IF \E f \in KeyFamilies : sd[f] = "mismatch"
    THEN [raised |-> "RuntimeError", params |-> own]
    ELSE IF strict /\ \E f \in KeyFamilies : sd[f] = "absent"
    THEN [raised |-> "KeyError", params |-> own]
    ELSE [raised |-> "",
          params |-> [f \in KeyFamilies |->
                         IF sd[f] = "present" THEN "pretrained" ELSE own[f]]]

LoadStateDict ==
    /\ pc = "load"
    /\ LET loaded == load_state_dict(param_src, state_dict, FALSE)
       IN IF loaded.raised # ""
          THEN pc' = "load_error" /\ UNCHANGED param_src
          ELSE pc' = "optimizer" /\ param_src' = loaded.params
    /\ UNCHANGED <<CONFIG, state_dict, param_groups, iteration, i,
                   loader_left, grad_count, param_version, fwd_reads, call_t,
                   saved, netVars, mscVars, modVars>>

\* optimizer = torch.optim.SGD(...): the generators of get_lr_params are
\* consumed here.
BuildOptimizer ==
    /\ pc = "optimizer"
    /\ param_groups' = SGDParamGroups(NamedModules(interp), RatInt(CONFIG.LR),
                                      CONFIG.WEIGHT_DECAY)
    /\ pc' = "train_mode"
    /\ UNCHANGED <<CONFIG, state_dict, param_src, iteration, i, loader_left,
                   grad_count, param_version, fwd_reads, call_t, saved,
                   netVars, mscVars, modVars>>

\* model.train(); freeze_bn(); then the first pass of the for statement
TrainMode ==
    /\ pc = "train_mode"
    /\ training' = TRUE
    /\ IF CONFIG.ITER_MAX >= 1
       THEN iteration' = 1 /\ pc' = "sched"
       ELSE iteration' = iteration /\ pc' = "final_save"
    /\ UNCHANGED <<CONFIG, state_dict, param_src, param_groups, i,
                   loader_left, grad_count, param_version, fwd_reads, call_t,
                   saved, netVars, mscVars, interp>>

\* The for statement taking its next value, or the loop ending
NextIteration ==
    IF iteration < CONFIG.ITER_MAX
    THEN iteration' = iteration + 1 /\ pc' = "sched"
    ELSE iteration' = iteration /\ pc' = "final_save"

\* poly_lr_scheduler(optimizer, CONFIG.LR, iteration - 1, ...)
SetLearningRate ==
    /\ pc = "sched"
    /\ param_groups' =
           poly_lr_scheduler(param_groups, RatInt(CONFIG.LR), iteration - 1,
                             CONFIG.LR_DECAY, CONFIG.ITER_MAX,
                             CONFIG.POLY_POWER)
    /\ call_t' = iteration - 1
    /\ pc' = "zero_grad"
    /\ UNCHANGED <<CONFIG, state_dict, param_src, iteration, i, loader_left,
                   grad_count, param_version, fwd_reads, saved, netVars,
                   mscVars, modVars>>

\* The accumulation loop starting without optimizer.zero_grad()
ZeroGrad_keep ==
    /\ pc = "zero_grad"
    /\ i' = 1 /\ fwd_reads' = {}
    /\ pc' = "substep"
    /\ UNCHANGED <<CONFIG, state_dict, param_src, param_groups, iteration,
                   loader_left, grad_count, param_version, call_t, saved,
                   netVars, mscVars, modVars>>

\* optimizer.zero_grad(); iter_loss = 0; the accumulation loop starts
ZeroGrad ==
    /\ pc = "zero_grad"
    /\ grad_count' = 0
    /\ i' = 1 /\ fwd_reads' = {}
    /\ pc' = "substep"
    /\ UNCHANGED <<CONFIG, state_dict, param_src, param_groups, iteration,
                   loader_left, param_version, call_t, saved, netVars,
                   mscVars, modVars>>

\* A reload condition counting the batches of this iteration only
ReloadDue_local(iter, k, iter_size, len) == k % len = 0

\* ((iteration - 1) * CONFIG.ITER_SIZE + i) % len(loader) == 0
ReloadDue(iter, k, iter_size, len) == ((iter - 1) * iter_size + k) % len = 0

\* One pass of the accumulation loop: next(loader_iter), which raises
\* StopIteration on an exhausted iterator; the forward pass (MSC.forward
\* assigns its interp attributes); the loss over the outputs divided by
\* ITER_SIZE; backward; the reload of the iterator.
SubStep ==
    /\ pc = "substep"
    /\ IF loader_left = 0
       THEN /\ pc' = "stop_iteration"
            /\ UNCHANGED <<interp, fwd_reads, grad_count, loader_left, i>>
       ELSE /\ interp' = InterpFor(CONFIG.SIZE_TRAIN,
                                   DeepLabV2(CONFIG.SIZE_TRAIN))
            /\ fwd_reads' = fwd_reads \cup {param_version}
            /\ grad_count' = grad_count + 1
            /\ loader_left' =
                   IF ReloadDue(iteration, i, CONFIG.ITER_SIZE,
                                CONFIG.LEN_LOADER)
                   THEN CONFIG.LEN_LOADER
                   ELSE loader_left - 1
            /\ IF i < CONFIG.ITER_SIZE
               THEN i' = i + 1 /\ pc' = "substep"
               ELSE i' = i /\ pc' = "opt_step"
    /\ UNCHANGED <<CONFIG, state_dict, param_src, param_groups, iteration,
                   param_version, call_t, saved, netVars, mscVars, training>>

\* loss_meter.add(iter_loss); optimizer.step()
OptimizerStep ==
    /\ pc = "opt_step"
    /\ param_version' = param_version + 1
    /\ pc' = "tensorboard"
    /\ UNCHANGED <<CONFIG, state_dict, param_src, param_groups, iteration, i,
                   loader_left, grad_count, fwd_reads, call_t, saved, netVars,
                   mscVars, modVars>>

\* The TensorBoard block: scalars every ITER_TF iterations, and then either
\* `continue` (the rest of the loop body is skipped) or the histograms.
TensorBoard ==
    /\ pc = "tensorboard"
    /\ IF iteration % CONFIG.ITER_TF = 0 /\ iteration % HistogramEvery # 0
       THEN NextIteration
       ELSE iteration' = iteration /\ pc' = "save_snap"
    /\ UNCHANGED <<CONFIG, state_dict, param_src, param_groups, i,
                   loader_left, grad_count, param_version, fwd_reads, call_t,
                   saved, netVars, mscVars, modVars>>

\* A write of model.module.state_dict() to a file of SAVE_DIR, during
\* iteration `at`
Written(file, at) == [file |-> file, at |-> at, version |-> param_version]

\* if iteration % CONFIG.ITER_SNAP == 0: checkpoint_{iteration}.pth
SaveSnapshot ==
    /\ pc = "save_snap"
    /\ saved' = IF iteration % CONFIG.ITER_SNAP = 0
                THEN saved \cup {Written("checkpoint_iteration", iteration)}
                ELSE saved
    /\ pc' = "save_current"
    /\ UNCHANGED <<CONFIG, state_dict, param_src, param_groups, iteration, i,
                   loader_left, grad_count, param_version, fwd_reads, call_t,
                   netVars, mscVars, modVars>>

\* if iteration % 100 == 0: checkpoint_current.pth; the loop body ends
SaveCurrent ==
    /\ pc = "save_current"
    /\ saved' = IF iteration % CurrentEvery = 0
                THEN saved \cup {Written("checkpoint_current", iteration)}
                ELSE saved
    /\ NextIteration
    /\ UNCHANGED <<CONFIG, state_dict, param_src, param_groups, i,
                   loader_left, grad_count, param_version, fwd_reads, call_t,
                   netVars, mscVars, modVars>>

\* checkpoint_final.pth after the loop
SaveFinal ==
    /\ pc = "final_save"
    /\ saved' = saved \cup {Written("checkpoint_final", iteration)}
    /\ pc' = "done"
    /\ UNCHANGED <<CONFIG, state_dict, param_src, param_groups, iteration, i,
                   loader_left, grad_count, param_version, fwd_reads, call_t,
                   netVars, mscVars, modVars>>

Next ==
    \/ LoadStateDict
    \/ BuildOptimizer
    \/ TrainMode
    \/ SetLearningRate
    \/ ZeroGrad
    \/ SubStep
    \/ OptimizerStep
    \/ TensorBoard
    \/ SaveSnapshot
    \/ SaveCurrent
    \/ SaveFinal

Spec == Init /\ [][Next]_vars

-----------------------------------------------------------------------------
(* SpecSched: the optimizer main constructs, then poly_lr_scheduler called  *)
(* with any iteration argument, in any order                                *)

SchedConfigs ==
    {ConfigOf(1, 1, max, 1, 1, decay, power, lr, wd) :
        max \in 1..MaxSchedIter, decay \in 1..MaxLrDecay,
        power \in 0..MaxPower, lr \in 1..MaxLR, wd \in 1..MaxWeightDecay}
    \cup {ConfigOf(1, 1, LongRun, 1, 1, 10, 1, 1, 1)}

InitSched ==
    /\ CONFIG \in SchedConfigs /\ state_dict = BackboneOnly
    /\ pc = "load"
    /\ param_src = [f \in KeyFamilies |-> "fresh"]
    /\ param_groups = <<>>
    /\ iteration = 0 /\ i = 0
    /\ loader_left = CONFIG.LEN_LOADER
    /\ grad_count = 0 /\ param_version = 0 /\ fwd_reads = {}
    /\ call_t = -1 /\ saved = {}
    /\ training = TRUE /\ interp = NoInterp
    /\ MscIdle /\ NetIdle

\* poly_lr_scheduler(optimizer, CONFIG.LR, t, CONFIG.LR_DECAY,
\* CONFIG.ITER_MAX, CONFIG.POLY_POWER)
SchedulerCall ==
    /\ pc = "train_mode"
    /\ \E t \in 0..(CONFIG.ITER_MAX + MaxPastEnd) :
          /\ param_groups' =
                 poly_lr_scheduler(param_groups, RatInt(CONFIG.LR), t,
                                   CONFIG.LR_DECAY, CONFIG.ITER_MAX,
                                   CONFIG.POLY_POWER)
          /\ call_t' = t
    /\ UNCHANGED <<CONFIG, state_dict, pc, param_src, iteration, i,
                   loader_left, grad_count, param_version, fwd_reads, saved,
                   netVars, mscVars, modVars>>

NextSched == LoadStateDict \/ BuildOptimizer \/ SchedulerCall

SpecSched == InitSched /\ [][NextSched]_vars

-----------------------------------------------------------------------------
(* Claims on DeepLabV2 *)

NetDone == side > 0 /\ child = Len(Children)

\* C1 as stated: for every input side S the output side of DeepLabV2 is
\* ceil(S / 8).
C1_CeilEighth == NetDone => h = CeilDiv(side, 8)

\* C1 as amended: for every input side S the output side of DeepLabV2 is
\* floor((S + 1) / 8) + 1, which is ceil(S / 8) when S mod 8 is in 1..6 (321
\* and 513 among them) and ceil(S / 8) + 1 when S mod 8 is 7 or 0; before
\* the network has run, h follows the layer arithmetic child by child.
C1_OutputSide ==
    /\ NetDone => /\ h = ((side + 1) \div 8) + 1
                  /\ (side % 8) \in 1..6 => h = CeilDiv(side, 8)
                  /\ (side % 8) \in {7, 0} => h = CeilDiv(side, 8) + 1
    /\ (side > 0 /\ child >= 1) =>
           h >= ((CeilDiv(side, 2) \div 2) + 1) \div 2

C1_Witness == NetDone /\ side = 513 /\ h = 65

-----------------------------------------------------------------------------
(* Claims on MSC.forward *)

Called == x_size > 0

\* num[j] / den of one map against another's, by cross-multiplication
ValLeq(a, b, j) == a.num[j] * b.den <= b.num[j] * a.den

ValEq(a, b, j) == a.num[j] * b.den = b.num[j] * a.den

\* C6: MSC.forward returns the four maps [100%, 75%, 50%, fused] in training
\* mode and the fused map alone in evaluation mode; a call in the other mode
\* on the same input computes the same maps and changes only what is
\* returned.
C6_ReturnByMode ==
    [][ret' # ret =>
          /\ training' = training
          /\ IF training
             THEN /\ Len(ret') = 4
                  /\ ret' = <<output100', output075', output050', outputMAX'>>
                  /\ ret'[1] = scale_out.o100 /\ ret'[2] = scale_out.o075
                  /\ ret'[3] = scale_out.o050
             ELSE /\ Len(ret') = 1
                  /\ ret' = <<outputMAX'>>
          /\ Called =>
                /\ outputMAX' = outputMAX
                /\ <<output100', output075', output050'>>
                       = <<output100, output075, output050>>
                /\ interp' = interp]_vars

C6_Witness ==
    /\ Called /\ ~training /\ Len(ret) = 1 /\ ret[1] = outputMAX
    /\ Size(outputMAX) = 3 /\ Size(output075) = 2

\* C7: for an input of side S the network runs at sides S, floor(0.75 S) and
\* floor(0.5 S); the 75% and 50% outputs are resized to the side of the 100%
\* output; the fused map has the shape of the 100% output and at every pixel
\* equals the largest of the three values there.
C7_FusedIsMax ==
    Called =>
      /\ x_size = x_in
      /\ 4 * interp.interp075 <= 3 * x_size
      /\ 3 * x_size < 4 * (interp.interp075 + 1)
      /\ 2 * interp.interp050 <= x_size
      /\ x_size < 2 * (interp.interp050 + 1)
      /\ output100 = scale_out.o100 /\ Size(output100) = DeepLabV2(x_size)
      /\ output075 = scale_out.o075
      /\ Size(output075) = DeepLabV2(interp.interp075)
      /\ output050 = scale_out.o050
      /\ Size(output050) = DeepLabV2(interp.interp050)
      /\ interp.interp100 = Size(output100)
      /\ Size(up075) = Size(output100)
      /\ Size(up050) = Size(output100)
      /\ Size(outputMAX) = Size(output100)
      /\ \A j \in 1..Size(output100) :
            /\ ValLeq(output100, outputMAX, j)
            /\ ValLeq(up075, outputMAX, j)
            /\ ValLeq(up050, outputMAX, j)
            /\ \/ ValEq(output100, outputMAX, j)
               \/ ValEq(up075, outputMAX, j)
               \/ ValEq(up050, outputMAX, j)

\* A call where the fused value at the middle pixel comes from the resized
\* 50% output alone, between two of its source pixels.
C7_Witness ==
    /\ Called /\ x_size = 16 /\ Size(output100) = 3 /\ Size(output050) = 2
    /\ ~ValLeq(up050, output100, 2) /\ ~ValLeq(up050, up075, 2)
    /\ ValEq(up050, outputMAX, 2)
    /\ up050.den = 2 /\ up050.num[2] = 1

-----------------------------------------------------------------------------
(* Claims on the training driver *)

Loaded == pc \notin {"load", "none"}

\* C2: a checkpoint that only lacks ASPP keys loads without error and leaves
\* the ASPP parameters at their fresh initialization, but a checkpoint that
\* lacks a non-ASPP key, or holds an incompatible one, ends in a load error
\* and training does not start.
C2_NonAsppFatal ==
    Loaded =>
      /\ (state_dict["layer"] = "present" /\ state_dict["aspp"] = "absent")
            => (pc # "load_error" /\ param_src["aspp"] = "fresh")
      /\ state_dict["layer"] # "present" => pc = "load_error"

InLoop == pc \in {"sched", "zero_grad", "substep", "opt_step", "tensorboard",
                  "save_snap", "save_current"}

\* C3: in every iteration the gradients are cleared, then exactly ITER_SIZE
\* accumulation sub-steps run, then the optimizer steps once: the step never
\* comes before all ITER_SIZE sub-steps have added their gradients, the
\* parameters are written once per iteration, and every forward pass of an
\* iteration reads the same parameter values.
C3_AccumulateThenStep ==
    /\ pc \in {"sched", "zero_grad"} => param_version = iteration - 1
    /\ pc = "substep" =>
          /\ i \in 1..CONFIG.ITER_SIZE
          /\ grad_count = i - 1
          /\ param_version = iteration - 1
          /\ fwd_reads \subseteq {iteration - 1}
    /\ pc = "opt_step" =>
          /\ grad_count = CONFIG.ITER_SIZE
          /\ param_version = iteration - 1
          /\ fwd_reads = {iteration - 1}
    /\ pc \in {"tensorboard", "save_snap", "save_current"} =>
          /\ grad_count = CONFIG.ITER_SIZE
          /\ param_version = iteration
          /\ fwd_reads = {iteration - 1}
    /\ pc \in {"final_save", "done"} => param_version = CONFIG.ITER_MAX

C3_Witness ==
    /\ pc = "tensorboard" /\ iteration = 3 /\ CONFIG.ITER_SIZE = 3
    /\ grad_count = 3 /\ param_version = 3 /\ fwd_reads = {2}

\* a * b^e, the integers the rate checks compare
TimesPow(a, b, e) == a * Pow(b, e)

\* C4: a decaying call of poly_lr_scheduler at iteration t sets the rates to
\* new_lr, 10 new_lr, 20 new_lr with new_lr = init_lr (1 - t/max_iter)^power
\* computed from the initial rate (0.5, 5, 10 for init_lr 1, max_iter 100,
\* power 1, lr_decay_iter 10, t 50); and in every state of the driver group
\* 1's rate is 10 times and group 2's rate 20 times group 0's.
C4_PolyRates ==
    param_groups # <<>> =>
      LET lr0 == param_groups[1].lr
          lr1 == param_groups[2].lr
          lr2 == param_groups[3].lr
          \* the latest decaying call (every call of the driver has t <= max_iter)
          t == call_t - (call_t % CONFIG.LR_DECAY)
      IN /\ lr1.n * lr0.d = 10 * lr0.n * lr1.d
         /\ lr2.n * lr0.d = 20 * lr0.n * lr2.d
         /\ call_t = -1 => lr0 = [n |-> CONFIG.LR, d |-> 1]
         /\ call_t >= 0 =>
               TimesPow(lr0.n, CONFIG.ITER_MAX, CONFIG.POLY_POWER)
                   = TimesPow(lr0.d * CONFIG.LR, CONFIG.ITER_MAX - t,
                              CONFIG.POLY_POWER)
         /\ (/\ CONFIG.LR = 1 /\ CONFIG.ITER_MAX = 100
             /\ CONFIG.POLY_POWER = 1 /\ CONFIG.LR_DECAY = 10
             /\ call_t = 50) =>
               /\ lr0 = [n |-> 1, d |-> 2]
               /\ lr1 = [n |-> 5, d |-> 1]
               /\ lr2 = [n |-> 10, d |-> 1]

C4_Witness ==
    /\ pc = "zero_grad" /\ call_t = 50
    /\ CONFIG.LR = 1 /\ CONFIG.ITER_MAX = 100
    /\ CONFIG.POLY_POWER = 1 /\ CONFIG.LR_DECAY = 10
    /\ param_groups[1].lr = [n |-> 1, d |-> 2]
    /\ param_groups[3].lr = [n |-> 10, d |-> 1]

GroupKeys == <<"1x", "10x", "20x">>

\* C8: the three parameter groups are pairwise disjoint, and after any number
\* of forward passes and iterations each group still holds exactly the
\* parameters get_lr_params selects for its key from the module tree as it
\* then is, interp075/interp050/interp100 included: the backbone Conv2d
\* parameters, the ASPP Conv2d weights, the ASPP Conv2d biases.
C8_GroupsFixedDisjoint ==
    param_groups # <<>> =>
      /\ \A g \in 1..3 :
            /\ param_groups[g].params
                   = get_lr_params(NamedModules(interp), GroupKeys[g])
            /\ param_groups[g].params # {}
      /\ \A g1, g2 \in 1..3 :
            g1 # g2 => param_groups[g1].params \cap param_groups[g2].params = {}
      /\ \A q \in param_groups[1].params : NameHas(q[1], "layer")
      /\ \A q \in param_groups[2].params :
            NameHas(q[1], "aspp") /\ q[2] = "weight"
      /\ \A q \in param_groups[3].params :
            NameHas(q[1], "aspp") /\ q[2] = "bias"

C8_Witness ==
    /\ pc = "substep" /\ iteration = 2
    /\ AttachedModules(interp) # {}
    /\ <<<<"scale", "aspp", "stages", "c3">>, "bias">>
           \in param_groups[3].params
    /\ <<<<"scale", "layer4", "block23", "conv3x3", "conv">>, "weight">>
           \in param_groups[1].params

\* C9: every next(loader_iter) is made on an iterator with a batch left: the
\* iterator is re-created exactly when the number of batches drawn so far is
\* a multiple of len(loader), so the run never stops on an exhausted
\* iterator, for every loader length, ITER_SIZE (also above the loader
\* length) and ITER_MAX.
C9_IteratorNeverExhausted ==
    /\ pc # "stop_iteration"
    /\ pc = "substep" =>
          LET drawn == (iteration - 1) * CONFIG.ITER_SIZE + (i - 1)
          IN /\ loader_left >= 1
             /\ loader_left = CONFIG.LEN_LOADER - (drawn % CONFIG.LEN_LOADER)

C9_Witness ==
    /\ pc = "substep" /\ iteration = 2 /\ i = 3
    /\ CONFIG.ITER_SIZE = 3 /\ CONFIG.LEN_LOADER = 2
    /\ loader_left = 1

\* Iteration k has run to its end
Completed(k) == iteration > k \/ pc \in {"final_save", "done"}

\* C10: for every iteration k and every logging interval ITER_TF, iteration
\* k writes checkpoint_k if k is a multiple of ITER_SNAP and
\* checkpoint_current if k is a multiple of 100, each after the optimizer
\* step of iteration k and before iteration k + 1, so with the parameters
\* after exactly k updates.
C10_PeriodicCheckpoints ==
    InLoop \/ pc \in {"final_save", "done"} =>
      \A k \in 1..CONFIG.ITER_MAX :
        Completed(k) =>
          /\ k % CONFIG.ITER_SNAP = 0 =>
                [file |-> "checkpoint_iteration", at |-> k, version |-> k]
                    \in saved
          /\ k % CurrentEvery = 0 =>
                [file |-> "checkpoint_current", at |-> k, version |-> k]
                    \in saved

-----------------------------------------------------------------------------
(* Claims on poly_lr_scheduler alone *)

GroupLrs(groups) == <<groups[1].lr, groups[2].lr, groups[3].lr>>

GroupDecays(groups) ==
    <<groups[1].weight_decay, groups[2].weight_decay, groups[3].weight_decay>>

\* C5: a call of poly_lr_scheduler at an iteration t that is not a multiple
\* of lr_decay_iter, or with t > max_iter, leaves the three rates as they
\* were (at t = 51 those set at t = 50); every call, decaying or not, leaves
\* the weight decays as constructed: the configured one for groups 0 and 1,
\* zero for the bias group.
C5_SchedulerFrame ==
    [][pc = "train_mode" =>
          /\ (call_t' % CONFIG.LR_DECAY # 0 \/ call_t' > CONFIG.ITER_MAX)
                => GroupLrs(param_groups') = GroupLrs(param_groups)
          /\ GroupDecays(param_groups') = GroupDecays(param_groups)
          /\ GroupDecays(param_groups')
                 = <<CONFIG.WEIGHT_DECAY, CONFIG.WEIGHT_DECAY, 0>>]_vars

C5_Witness ==
    /\ pc = "train_mode" /\ call_t = 51
    /\ CONFIG.ITER_MAX = 100 /\ CONFIG.LR_DECAY = 10
    /\ CONFIG.POLY_POWER = 1 /\ CONFIG.LR = 1
    /\ GroupLrs(param_groups)
           = <<[n |-> 1, d |-> 2], [n |-> 5, d |-> 1], [n |-> 10, d |-> 1]>>
    /\ GroupDecays(param_groups) = <<1, 1, 0>>

=============================================================================
